---- MODULE Spec2Model ----
(***************************************************************************)
(* Realtime session registry and notification fan-out of BACKEND/server.js *)
(* (Socket.IO connection handlers, validateUserType, and the HTTP routes   *)
(* that emit to registered sockets).                                       *)
(*                                                                         *)
(* Strings are sequences of one-character strings, so that startsWith,     *)
(* includes and the 24-hex regular expression are computed on characters.  *)
(***************************************************************************)
EXTENDS Integers, Sequences, FiniteSets, TLC

\* ------------------------------------------------------------------ bounds
MaxConns == 2          \* socket handles that may ever be allocated
MaxHttpConns == 1      \* socket handles allocated while every HTTP route runs
MaxShortLen == 3       \* length of the exhaustively enumerated identity strings
MaxDispatch == 1       \* HTTP requests that reach a notification dispatch
MaxDocs == 1           \* documents a collection may hold
MaxJobs == 2           \* requests in flight that spawn the AI subprocess
MaxCalls == 2          \* signup and OTP requests in flight
MaxAccounts == 2       \* documents the login collection may hold
MaxIssued == 2         \* otpStore.set calls
MaxTime == 2           \* clock ticks
MaxStatEntries == 2    \* entries RoadEntry.find returns to /api/report-stats

\* ------------------------------------------------------- program constants
HexLen == 24           \* /^[0-9a-f]{24}$/i
OtpLifetime == 1       \* 10 * 60 * 1000 ms, the unit of the clock

AdminPrefix == <<"a", "d", "m", "i", "n", "_">>
Separator == "_"
HexChars == {"0", "1", "2", "3", "4", "5", "6", "7", "8", "9",
             "a", "b", "c", "d", "e", "f", "A", "B", "C", "D", "E", "F"}

\* ------------------------------------------------------------ JS values
\* A client-supplied value: undefined, a string or a number.
Undefined == [kind |-> "undefined", chars |-> <<>>, num |-> 0]
Str(s) == [kind |-> "string", chars |-> s, num |-> 0]
Num(n) == [kind |-> "number", chars |-> <<>>, num |-> n]

\* !v
Falsy(v) ==
  \/ v.kind = "undefined"
  \/ v.kind = "string" /\ v.chars = <<>>
  \/ v.kind = "number" /\ v.num = 0

\* String.prototype.startsWith
RECURSIVE StartsWith(_, _)
StartsWith(s, prefix) ==
  IF prefix = <<>> THEN TRUE
  ELSE IF s = <<>> THEN FALSE
  ELSE Head(s) = Head(prefix) /\ StartsWith(Tail(s), Tail(prefix))

\* String.prototype.includes for a one-character needle
RECURSIVE Includes(_, _)
Includes(s, ch) ==
  IF s = <<>> THEN FALSE
  ELSE Head(s) = ch \/ Includes(Tail(s), ch)

\* number of leading characters of s that are hexadecimal digits (either case)
RECURSIVE HexRun(_)
HexRun(s) ==
  IF s = <<>> THEN 0
  ELSE IF Head(s) \in HexChars THEN 1 + HexRun(Tail(s))
  ELSE 0

\* the pattern without its end anchor: /^[0-9a-f]{24}/i
MatchHex24_Unanchored(s) == HexRun(s) >= HexLen

\* userId.match(/^[0-9a-f]{24}$/i) is not null
MatchHex24(s) == HexRun(s) = HexLen /\ Len(s) = HexLen

\* ----------------------------------------------------- validateUserType
ThrowsTypeError == [threw |-> TRUE, valid |-> FALSE, isAdmin |-> FALSE,
                    userType |-> "none", message |-> "TypeError"]

\* a classifier that grants the admin role only to identities on a list of
\* issued ones (here: none was issued)
validateUserType_IssuedOnly(userId) ==
  IF Falsy(userId)
    THEN [threw |-> FALSE, valid |-> FALSE, isAdmin |-> FALSE,
          userType |-> "none", message |-> "No userId provided"]
  ELSE IF userId.kind # "string"
    THEN ThrowsTypeError
  ELSE LET isAdmin == StartsWith(userId.chars, AdminPrefix) /\ userId.chars \in {}
           isRegularUser == Includes(userId.chars, Separator)
                              \/ MatchHex24(userId.chars)
       IN IF ~isAdmin /\ ~isRegularUser
            THEN [threw |-> FALSE, valid |-> FALSE, isAdmin |-> FALSE,
                  userType |-> "none", message |-> "Invalid userId format"]
            ELSE [threw |-> FALSE, valid |-> TRUE, isAdmin |-> isAdmin,
                  userType |-> IF isAdmin THEN "admin" ELSE "user",
                  message |-> IF isAdmin THEN "Valid admin user"
                                         ELSE "Valid regular user"]

validateUserType(userId) ==
  IF Falsy(userId)
    THEN [threw |-> FALSE, valid |-> FALSE, isAdmin |-> FALSE,
          userType |-> "none", message |-> "No userId provided"]
  ELSE IF userId.kind # "string"
    THEN ThrowsTypeError       \* userId.startsWith is not a function
  ELSE LET isAdmin == StartsWith(userId.chars, AdminPrefix)
           isRegularUser == Includes(userId.chars, Separator)
                              \/ MatchHex24(userId.chars)
       IN IF ~isAdmin /\ ~isRegularUser
            THEN [threw |-> FALSE, valid |-> FALSE, isAdmin |-> FALSE,
                  userType |-> "none", message |-> "Invalid userId format"]
            ELSE [threw |-> FALSE, valid |-> TRUE, isAdmin |-> isAdmin,
                  userType |-> IF isAdmin THEN "admin" ELSE "user",
                  message |-> IF isAdmin THEN "Valid admin user"
                                         ELSE "Valid regular user"]

\* vtResult before the call
NoResult == [threw |-> FALSE, valid |-> FALSE, isAdmin |-> FALSE,
             userType |-> "pending", message |-> ""]

\* ------------------------------------------------------ sample identities
Admin1 == <<"a", "d", "m", "i", "n", "_", "1">>
UserAlice == <<"u", "s", "e", "r", "_", "a">>
Bob == <<"b", "o", "b">>
HexUser == <<"5", "f", "1", "a", "2", "b", "3", "c", "4", "d", "5", "e",
             "6", "f", "7", "a", "8", "b", "9", "c", "0", "d", "1", "e">>

\* values a client may put in an authenticate event
AuthPayloads == {Str(Admin1), Str(UserAlice), Str(Bob), Str(<<>>), Undefined, Num(42)}

\* the database outlives the process: it starts empty or with an entry that an
\* earlier run stored for user_a
InitialRoadEntries ==
  {<<>>, <<[userId |-> Str(UserAlice), reviewed |-> FALSE, reviewStatus |-> "pending"]>>}

Conns == 1..MaxConns
Broadcast == 0         \* io.emit: every connected socket
NoConn == 0

VARIABLES
  serverUp,      \* the Node process is running
  status,        \* per handle: "new" (not yet allocated), "open", "closed"
  sockUserId,    \* socket.userId
  sockUserType,  \* socket.userType ("none" while unset)
  sockIsAdmin,   \* socket.isAdmin
  authTimer,     \* authTimeout: "none", "pending", "cleared", "fired"
  userSockets,   \* Map userId -> socket.id
  out,           \* events emitted by the last step
  last,          \* the last handler that ran, with its input and result
  roadEntries,   \* RoadEntry collection ("roadloc"), _id = position
  feedbacks,     \* Feedback collection, _id = position
  finalImages,   \* FinalImage collection ("final_img")
  pendingImmediate, \* setImmediate callbacks of /analyze-damage not yet run
  seq,           \* number of HTTP requests that reached a notification dispatch
  dropped,       \* <<n, identity>>: dispatch n found no registry entry for identity
  vtInput,       \* argument of a direct validateUserType call
  vtResult,      \* its result
  jobs,          \* per request slot: a request that spawns the AI subprocess
  loginCollection, \* the "login" collection, in insertion order
  otpStore,      \* Map email -> {otp, expires}
  calls,         \* per request slot: a signup or OTP request and its await
  now,           \* Date.now(), in units of the OTP lifetime
  issued,        \* number of otpStore.set calls so far
  loginReq,      \* a POST /api/login request and the account findOne returns
  loginRes,      \* its response
  statsEntries,  \* the entries RoadEntry.find returns to /api/report-stats
  statsRes,      \* its response
  canvasSeverity \* severity carried by the last /save-canvas announcement

sockvars == <<serverUp, status, sockUserId, sockUserType, sockIsAdmin, authTimer,
              userSockets>>
dbvars == <<roadEntries, feedbacks, finalImages>>
httpvars == <<pendingImmediate, seq, dropped>>
vtvars == <<vtInput, vtResult>>
jobvars == <<jobs>>
acctvars == <<loginCollection, otpStore, calls, now, issued>>
loginvars == <<loginReq, loginRes>>
statvars == <<statsEntries, statsRes>>
canvasvars == <<canvasSeverity>>
\* state that the connection handlers and most routes never touch
auxvars == <<jobvars, acctvars, loginvars, statvars, canvasvars>>
vars == <<sockvars, out, last, dbvars, httpvars, vtvars, auxvars>>

\* ------------------------------------------------------------ Map helpers
MapSet(m, k, v) == [x \in DOMAIN m \cup {k} |-> IF x = k THEN v ELSE m[x]]
MapDelete(m, k) == [x \in DOMAIN m \ {k} |-> m[x]]
MapHas(m, k) == k \in DOMAIN m
EmptyMap == [x \in {} |-> NoConn]

\* ----------------------------------------------------------------- events
\* an emitted event: the room it is sent to, its name, the identity it carries,
\* the audience tag (a role, or "all" for an io.emit copy) and the number of the
\* HTTP dispatch that produced it (0 for acknowledgments)
Event(to, name, uid, kind, n) ==
  [to |-> to, event |-> name, userId |-> uid, userType |-> kind, n |-> n]

\* what `last` records: the handler, the socket it ran on and the identity it
\* was given (socket handlers), and for HTTP routes the SpecificUser target, the
\* response status, the outcome of the registry lookup, the dispatch number
\* and the request variant of a request that reached its dispatch
Op(name, c, v) == [op |-> name, conn |-> c, userId |-> v, http |-> 0,
                   delivery |-> "none", n |-> 0, path |-> ""]

\* events of the last step that socket c actually received
Received(c) == {e \in out : status[c] = "open" /\ e.to \in {c, Broadcast}}

\* ------------------------------------------ requests that spawn a subprocess
Jobs == 1..MaxJobs

\* a request slot nothing has arrived on: the route, how far the request has
\* got ("idle", "writing" the upload, subprocess "running", "closed", or
\* "done" without a subprocess), the setTimeout handle, the responseSent flag,
\* the number of res.status(..).json(..) calls, the last status sent, and the
\* userId of the request body
NoJob == [route |-> "none", pc |-> "idle", timer |-> "none",
          responseSent |-> FALSE, responses |-> 0, http |-> 0,
          userId |-> Undefined]

JobInit == jobs = [j \in Jobs |-> NoJob]

\* ------------------------------------------------ signup and OTP requests
Calls == 1..MaxCalls

\* a request slot nothing has arrived on
NoCall == [route |-> "none", pc |-> "idle", email |-> "", otp |-> "",
           password |-> FALSE, via |-> 0, http |-> 0, error |-> ""]

NoOtps == [e \in {} |-> [otp |-> "", password |-> FALSE, expires |-> 0, id |-> 0]]

AcctInit ==
  /\ loginCollection = <<>>
  /\ otpStore = NoOtps
  /\ calls = [c \in Calls |-> NoCall]
  /\ now = 0
  /\ issued = 0

\* ------------------------------------------------------- POST /api/login
NoLogin == [kind |-> "none", isAdmin |-> "absent", id |-> <<>>, now |-> 0]
NoLoginRes == [http |-> 0, userId |-> Undefined, isAdmin |-> FALSE,
               userType |-> ""]

LoginQuiet == loginReq = NoLogin /\ loginRes = NoLoginRes

\* --------------------------------------------------- GET /api/report-stats
NoStats == [http |-> 0, total |-> 0, pending |-> 0, reviewed |-> 0]

StatsQuiet == statsEntries = <<>> /\ statsRes = NoStats

CanvasInit == canvasSeverity = "none"

AuxInit == JobInit /\ AcctInit /\ LoginQuiet /\ StatsQuiet /\ CanvasInit

\* ------------------------------------------------------------------- Init
Init ==
  /\ serverUp = TRUE
  /\ status = [c \in Conns |-> "new"]
  /\ sockUserId = [c \in Conns |-> Undefined]
  /\ sockUserType = [c \in Conns |-> "none"]
  /\ sockIsAdmin = [c \in Conns |-> FALSE]
  /\ authTimer = [c \in Conns |-> "none"]
  /\ userSockets = EmptyMap
  /\ out = {}
  /\ last = Op("init", NoConn, Undefined)
  /\ roadEntries \in InitialRoadEntries
  /\ feedbacks = <<>>
  /\ finalImages = <<>>
  /\ pendingImmediate = 0
  /\ seq = 0
  /\ dropped = {}
  /\ vtInput = Undefined
  /\ vtResult = NoResult
  /\ AuxInit

\* the state before any request, with an empty database
CoreInit ==
  /\ serverUp = TRUE
  /\ status = [c \in Conns |-> "new"]
  /\ sockUserId = [c \in Conns |-> Undefined]
  /\ sockUserType = [c \in Conns |-> "none"]
  /\ sockIsAdmin = [c \in Conns |-> FALSE]
  /\ authTimer = [c \in Conns |-> "none"]
  /\ userSockets = EmptyMap
  /\ out = {}
  /\ last = Op("init", NoConn, Undefined)
  /\ roadEntries = <<>>
  /\ feedbacks = <<>>
  /\ finalImages = <<>>
  /\ pendingImmediate = 0
  /\ seq = 0
  /\ dropped = {}
  /\ vtInput = Undefined
  /\ vtResult = NoResult

\* ------------------------------------------------- io.on("connection")
\* socket ids are allocated once each; the lowest unused handle is next
Connect(c) ==
  /\ serverUp
  /\ UNCHANGED <<dbvars, httpvars, vtvars, auxvars>>
  /\ status[c] = "new"
  /\ \A d \in Conns : d < c => status[d] # "new"
  /\ status' = [status EXCEPT ![c] = "open"]
  /\ authTimer' = [authTimer EXCEPT ![c] = "pending"]
  /\ out' = {}
  /\ last' = Op("connection", c, Undefined)
  /\ UNCHANGED <<serverUp, sockUserId, sockUserType, sockIsAdmin, userSockets>>

\* An exception escaping a socket handler is uncaught: the process exits,
\* every connection drops and the in-memory registry is gone.
Crash(opname, c, v) ==
  /\ serverUp' = FALSE
  /\ status' = [d \in Conns |-> IF status[d] = "open" THEN "closed" ELSE status[d]]
  /\ userSockets' = EmptyMap
  /\ out' = {}
  /\ last' = [Op(opname, c, v) EXCEPT !.delivery = "threw"]
  /\ UNCHANGED <<sockUserId, sockUserType, sockIsAdmin, authTimer>>

\* clearTimeout(authTimeout)
ClearTimeout(t) == IF t = "pending" THEN "cleared" ELSE t

\* registration that keeps the handle already on file
Register_FirstWins(m, uid, c) == IF MapHas(m, uid) THEN m ELSE MapSet(m, uid, c)

\* userSockets.set(userId, socket.id) in the authenticate handler
Register(m, uid, c) == MapSet(m, uid, c)

\* the handler with its commented-out socket.disconnect(true) restored
Authenticate_DisconnectInvalid(c, userId) ==
  /\ serverUp
  /\ UNCHANGED <<dbvars, httpvars, vtvars, auxvars>>
  /\ status[c] = "open"
  /\ LET validation == validateUserType(userId) IN
     IF validation.threw THEN Crash("authenticate", c, userId)
     ELSE
       /\ authTimer' = [authTimer EXCEPT ![c] = ClearTimeout(authTimer[c])]
       /\ last' = Op("authenticate", c, userId)
       /\ UNCHANGED serverUp
       /\ IF validation.valid
            THEN /\ userSockets' = Register(userSockets, userId.chars, c)
                 /\ sockUserId' = [sockUserId EXCEPT ![c] = userId]
                 /\ sockIsAdmin' = [sockIsAdmin EXCEPT ![c] = validation.isAdmin]
                 /\ sockUserType' = [sockUserType EXCEPT ![c] = validation.userType]
                 /\ out' = {Event(c, "auth_success", userId, validation.userType, 0)}
                 /\ UNCHANGED status
            ELSE /\ out' = {Event(c, "auth_error", Undefined, "none", 0)}
                 /\ status' = [status EXCEPT ![c] = "closed"]
                 /\ userSockets' = IF ~Falsy(sockUserId[c])
                                     THEN MapDelete(userSockets, sockUserId[c].chars)
                                     ELSE userSockets
                 /\ UNCHANGED <<sockUserId, sockIsAdmin, sockUserType>>

\* socket.on("authenticate")
Authenticate(c, userId) ==
  /\ serverUp
  /\ UNCHANGED <<dbvars, httpvars, vtvars, auxvars>>
  /\ status[c] = "open"
  /\ LET validation == validateUserType(userId) IN
     IF validation.threw THEN Crash("authenticate", c, userId)
     ELSE
       /\ authTimer' = [authTimer EXCEPT ![c] = ClearTimeout(authTimer[c])]
       /\ last' = Op("authenticate", c, userId)
       /\ UNCHANGED <<serverUp, status>>
       /\ IF validation.valid
            THEN /\ userSockets' = Register(userSockets, userId.chars, c)
                 /\ sockUserId' = [sockUserId EXCEPT ![c] = userId]
                 /\ sockIsAdmin' = [sockIsAdmin EXCEPT ![c] = validation.isAdmin]
                 /\ sockUserType' = [sockUserType EXCEPT ![c] = validation.userType]
                 /\ out' = {Event(c, "auth_success", userId, validation.userType, 0)}
            ELSE /\ out' = {Event(c, "auth_error", Undefined, "none", 0)}
                 /\ UNCHANGED <<userSockets, sockUserId, sockIsAdmin, sockUserType>>

\* a reconnect handler that leaves a handle already on file in place
Reconnect_KeepsHandle(c) ==
  /\ serverUp
  /\ UNCHANGED <<dbvars, httpvars, vtvars, auxvars>>
  /\ status[c] = "open"
  /\ last' = Op("reconnect", c, sockUserId[c])
  /\ IF ~Falsy(sockUserId[c])
       THEN /\ userSockets' = Register_FirstWins(userSockets, sockUserId[c].chars, c)
            /\ out' = {Event(c, "auth_success", sockUserId[c], sockUserType[c], 0)}
       ELSE /\ out' = {}
            /\ UNCHANGED userSockets
  /\ UNCHANGED <<serverUp, status, sockUserId, sockUserType, sockIsAdmin, authTimer>>

\* socket.on("reconnect")
Reconnect(c) ==
  /\ serverUp
  /\ UNCHANGED <<dbvars, httpvars, vtvars, auxvars>>
  /\ status[c] = "open"
  /\ last' = Op("reconnect", c, sockUserId[c])
  /\ IF ~Falsy(sockUserId[c])
       THEN /\ userSockets' = MapSet(userSockets, sockUserId[c].chars, c)
            /\ out' = {Event(c, "auth_success", sockUserId[c], sockUserType[c], 0)}
       ELSE /\ out' = {}
            /\ UNCHANGED userSockets
  /\ UNCHANGED <<serverUp, status, sockUserId, sockUserType, sockIsAdmin, authTimer>>

\* a disconnect handler that forgets the delete
Unregister_Noop(m, uid, c) == m

\* userSockets.delete(socket.userId) in the disconnect handler
Unregister(m, uid, c) == MapDelete(m, uid)

\* socket.on("disconnect") body
OnDisconnect(c) ==
  IF ~Falsy(sockUserId[c])
    THEN userSockets' = Unregister(userSockets, sockUserId[c].chars, c)
    ELSE UNCHANGED userSockets

\* the client or the transport closes the connection
Disconnect(c) ==
  /\ serverUp
  /\ UNCHANGED <<dbvars, httpvars, vtvars, auxvars>>
  /\ status[c] = "open"
  /\ status' = [status EXCEPT ![c] = "closed"]
  /\ OnDisconnect(c)
  /\ out' = {}
  /\ last' = Op("disconnect", c, sockUserId[c])
  /\ UNCHANGED <<serverUp, sockUserId, sockUserType, sockIsAdmin, authTimer>>

\* the callback with its test inverted: if (socket.userId) socket.disconnect(true)
AuthTimeout_Inverted(c) ==
  /\ serverUp
  /\ UNCHANGED <<dbvars, httpvars, vtvars, auxvars>>
  /\ authTimer[c] = "pending"
  /\ authTimer' = [authTimer EXCEPT ![c] = "fired"]
  /\ out' = {}
  /\ last' = Op("authTimeout", c, sockUserId[c])
  /\ IF ~Falsy(sockUserId[c]) /\ status[c] = "open"
       THEN /\ status' = [status EXCEPT ![c] = "closed"]
            /\ userSockets' = MapDelete(userSockets, sockUserId[c].chars)
       ELSE UNCHANGED <<status, userSockets>>
  /\ UNCHANGED <<serverUp, sockUserId, sockUserType, sockIsAdmin>>

\* a deadline that ignores both clearTimeout and socket.userId
AuthTimeout_IgnoresSession(c) ==
  /\ serverUp
  /\ UNCHANGED <<dbvars, httpvars, vtvars, auxvars>>
  /\ authTimer[c] \in {"pending", "cleared"}
  /\ authTimer' = [authTimer EXCEPT ![c] = "fired"]
  /\ out' = {}
  /\ last' = [Op("authTimeout", c, sockUserId[c]) EXCEPT
                !.delivery = IF status[c] = "open" THEN "disconnected" ELSE "none"]
  /\ IF status[c] = "open"
       THEN /\ status' = [status EXCEPT ![c] = "closed"]
            /\ OnDisconnect(c)
       ELSE UNCHANGED <<status, userSockets>>
  /\ UNCHANGED <<serverUp, sockUserId, sockUserType, sockIsAdmin>>

\* the setTimeout callback of authTimeout
AuthTimeout(c) ==
  /\ serverUp
  /\ UNCHANGED <<dbvars, httpvars, vtvars, auxvars>>
  /\ authTimer[c] = "pending"
  /\ authTimer' = [authTimer EXCEPT ![c] = "fired"]
  /\ out' = {}
  /\ last' = [Op("authTimeout", c, sockUserId[c]) EXCEPT
                !.delivery = IF Falsy(sockUserId[c]) /\ status[c] = "open"
                               THEN "disconnected" ELSE "none"]
  /\ IF Falsy(sockUserId[c]) /\ status[c] = "open"
       THEN /\ status' = [status EXCEPT ![c] = "closed"]   \* socket.disconnect(true)
            /\ OnDisconnect(c)
       ELSE UNCHANGED <<status, userSockets>>
  /\ UNCHANGED <<serverUp, sockUserId, sockUserType, sockIsAdmin>>

\* the connection handlers, on the handles in C
SocketStep(C) ==
  \/ \E c \in C : Connect(c)
  \/ \E c \in C, userId \in AuthPayloads : Authenticate(c, userId)
  \/ \E c \in C : Reconnect(c)
  \/ \E c \in C : Disconnect(c)
  \/ \E c \in C : AuthTimeout(c)

SocketNext == SocketStep(Conns)


\* ================================================================ HTTP side
\* identities a request body (or a stored document) may name
TargetPayloads == {Str(Admin1), Str(UserAlice), Undefined}

Req(path, userId, id) == [path |-> path, userId |-> userId, id |-> id]

\* userSockets.get(v): the socket id on file, NoConn for undefined
Lookup(reg, v) ==
  IF v.kind = "string" /\ MapHas(reg, v.chars) THEN reg[v.chars] ELSE NoConn

\* a send that falls back to io.emit when the target has no entry
SendToUser_BroadcastFallback(reg, v, name, n) ==
  IF Lookup(reg, v) # NoConn
    THEN {Event(Lookup(reg, v), name, v, "user", n)}
    ELSE {Event(Broadcast, name, v, "user", n)}

\* const sid = userSockets.get(v); if (sid) io.to(sid).emit(name, ...)
SendToUser(reg, v, name, n) ==
  IF Lookup(reg, v) # NoConn
    THEN {Event(Lookup(reg, v), name, v, "user", n)}
    ELSE {}

\* which branch of "if (userSocketId)" ran
Delivery(reg, v) == IF Lookup(reg, v) # NoConn THEN "sent" ELSE "not_connected"

\* registry keys the fan-out loops select: connectedUserId.startsWith('admin_')
AdminKeys(reg) == {k \in DOMAIN reg : StartsWith(k, AdminPrefix)}

\* for (const [connectedUserId, socketId] of userSockets.entries())
\*   if (connectedUserId.startsWith('admin_')) io.to(socketId).emit(name, ...)
AdminFanout(reg, name, n) ==
  {Event(reg[k], name, Str(k), "admin", n) : k \in AdminKeys(reg)}

\* the admin loop of /api/review-image-v2: a direct emit per admin plus an
\* io.emit of the same admin payload to every socket
ReviewAdminFanout(reg, n) ==
  AdminFanout(reg, "image-reviewed", n)
    \cup {Event(Broadcast, "admin-notification-broadcast", Str(k), "admin", n) :
            k \in AdminKeys(reg)}

\* the submitter branch of /api/review-image-v2: direct emit plus io.emit backup
ReviewUserSend(reg, v, n) ==
  IF Lookup(reg, v) # NoConn
    THEN {Event(Lookup(reg, v), "image-reviewed", v, "user", n),
          Event(Broadcast, "image-reviewed-broadcast", v, "user", n)}
    ELSE {}

\* result of a route: status, emitted events, the SpecificUser target (Undefined
\* when the route has none), the lookup outcome, and whether dispatch code ran
Res(http, emits, target, delivery, dispatch) ==
  [http |-> http, emits |-> emits, target |-> target, delivery |-> delivery,
   dispatch |-> dispatch]
Fail(http) == Res(http, {}, Undefined, "none", FALSE)

\* ------------------------------------------------------------ POST /predict
PredictFailures == {"nofile", "writefail", "exitcode", "savefail"}
PredictOutcomes == {"notroad", "road"}

\* the route announcing a road to admins before it checks userId and saves
PredictResult_AnnounceBeforeSave(reg, req, n) ==
  IF req.path = "nofile" THEN Fail(400)
  ELSE IF req.path = "writefail" THEN Fail(500)
  ELSE IF req.path = "exitcode" THEN Fail(500)
  ELSE IF req.path = "savefail" THEN Fail(500)
  ELSE IF req.path = "road" /\ Falsy(req.userId)
    THEN Res(400, AdminFanout(reg, "new-road-entry", n)
                    \cup AdminFanout(reg, "admin-notification", n),
             Undefined, "none", FALSE)
  ELSE Res(200,
           (IF req.path = "road"
              THEN AdminFanout(reg, "new-road-entry", n)
                     \cup AdminFanout(reg, "admin-notification", n)
              ELSE {})
             \cup SendToUser(reg, req.userId, "prediction-complete", n),
           req.userId, Delivery(reg, req.userId), TRUE)

PredictResult(reg, req, n) ==
  IF req.path = "nofile" THEN Fail(400)
  ELSE IF req.path = "writefail" THEN Fail(500)   \* fs.writeFileSync threw
  ELSE IF req.path = "exitcode" THEN Fail(500)    \* code !== 0
  ELSE IF req.path = "savefail" THEN Fail(500)    \* a road, the upload not written
  ELSE IF req.path = "road" /\ Falsy(req.userId) THEN Fail(400)
  ELSE Res(200,
           (IF req.path = "road"
              THEN AdminFanout(reg, "new-road-entry", n)
                     \cup AdminFanout(reg, "admin-notification", n)
              ELSE {})
             \cup SendToUser(reg, req.userId, "prediction-complete", n),
           req.userId, Delivery(reg, req.userId), TRUE)

NewRoadEntry(userId) ==
  [userId |-> userId, reviewed |-> FALSE, reviewStatus |-> "pending"]

\* ------------------------------------------------------- POST /save-canvas
SaveCanvasPaths == {"missing", "ok"}
SeverityInputs == {"", "medium", "banana"}
SeverityEnum == {"low", "moderate", "high", "severe", "unknown"}

\* the mapping without its check against the enum
ValidSeverityLevel_Unchecked(severityLevel) ==
  LET v0 == IF severityLevel = "" THEN "unknown" ELSE severityLevel
  IN IF v0 = "medium" THEN "moderate" ELSE v0

\* validSeverityLevel
ValidSeverityLevel(severityLevel) ==
  LET v0 == IF severityLevel = "" THEN "unknown" ELSE severityLevel
      v1 == IF v0 = "medium" THEN "moderate" ELSE v0
  IN IF v1 \notin SeverityEnum THEN "unknown" ELSE v1

SaveCanvasResult(reg, req, n) ==
  IF req.path = "missing" THEN Fail(400)
  ELSE IF Falsy(req.userId) THEN Fail(400)
  ELSE Res(200, AdminFanout(reg, "prediction-complete", n),
           Undefined, "none", TRUE)

\* -------------------------------------------------- PATCH /api/feedbacks/:id
FeedbackFound(id) == id \in 1..Len(feedbacks)

PatchFeedbackResult(reg, req, n) ==
  IF ~FeedbackFound(req.id) THEN Fail(404)
  ELSE LET feedback == feedbacks[req.id] IN
       IF ~Falsy(feedback.userId)
         THEN Res(200, SendToUser(reg, feedback.userId, "feedback_status", n),
                  feedback.userId, Delivery(reg, feedback.userId), TRUE)
         ELSE Res(200, {}, Undefined, "none", TRUE)

\* --------------------------------------------- POST /api/feedbacks/:id/reply
ReplyPaths == {"mailfail", "ok"}

ReplyFeedbackResult(reg, req, n) ==
  IF ~FeedbackFound(req.id) THEN Fail(404)
  ELSE IF req.path = "mailfail" THEN Fail(500)
  ELSE LET feedback == feedbacks[req.id] IN
       IF ~Falsy(req.userId) /\ ~Falsy(feedback.userId)
         THEN Res(200, SendToUser(reg, feedback.userId, "feedback_reply", n),
                  feedback.userId, Delivery(reg, feedback.userId), TRUE)
         ELSE Res(200, {}, Undefined, "none", TRUE)

\* ----------------------------------------------- POST /api/user-notification
NotificationPaths == {"found", "notfound"}   \* loginCollection.findOne result

\* the route answering 404 when the target has no socket on file
UserNotificationResult_NotConnected404(reg, req, n) ==
  IF Falsy(req.userId) THEN Fail(400)
  ELSE IF req.userId.kind # "string" THEN Fail(500)
  ELSE IF ~StartsWith(req.userId.chars, AdminPrefix)
            /\ MatchHex24(req.userId.chars) /\ req.path = "notfound"
    THEN Fail(404)
  ELSE IF Lookup(reg, req.userId) = NoConn
    THEN Res(404, {}, req.userId, "not_connected", TRUE)
  ELSE Res(200, SendToUser(reg, req.userId, "notification", n),
           req.userId, Delivery(reg, req.userId), TRUE)

UserNotificationResult(reg, req, n) ==
  IF Falsy(req.userId) THEN Fail(400)
  ELSE IF req.userId.kind # "string" THEN Fail(500)   \* TypeError, caught
  ELSE IF ~StartsWith(req.userId.chars, AdminPrefix)
            /\ MatchHex24(req.userId.chars) /\ req.path = "notfound"
    THEN Fail(404)
  ELSE Res(200, SendToUser(reg, req.userId, "notification", n),
           req.userId, Delivery(reg, req.userId), TRUE)

\* ------------------------------------------------ POST /api/review-image-v2
ReviewRejects == {"noimage", "noreviewer"}
ReviewPaths == {"unmodified", "approved", "pending"}

EntryFound(id) == id \in 1..Len(roadEntries)

\* the route with the admin loop nested in the submitter's branch
ReviewResult_AdminsWithSubmitter(reg, req, n) ==
  IF req.path = "noimage" THEN Fail(400)
  ELSE IF req.path = "noreviewer" THEN Fail(400)
  ELSE IF ~EntryFound(req.id) THEN Fail(404)
  ELSE IF req.path = "unmodified" THEN Fail(500)
  ELSE LET targetUserId == roadEntries[req.id].userId IN
       Res(200,
           IF Lookup(reg, targetUserId) # NoConn
             THEN ReviewUserSend(reg, targetUserId, n) \cup ReviewAdminFanout(reg, n)
             ELSE {},
           targetUserId, Delivery(reg, targetUserId), TRUE)

\* the route notifying before it looks at result.modifiedCount
ReviewResult_NotifyBeforeUpdateCheck(reg, req, n) ==
  IF req.path = "noimage" THEN Fail(400)
  ELSE IF req.path = "noreviewer" THEN Fail(400)
  ELSE IF ~EntryFound(req.id) THEN Fail(404)
  ELSE LET targetUserId == roadEntries[req.id].userId IN
       Res(IF req.path = "unmodified" THEN 500 ELSE 200,
           ReviewUserSend(reg, targetUserId, n) \cup ReviewAdminFanout(reg, n),
           targetUserId, Delivery(reg, targetUserId), TRUE)

ReviewResult(reg, req, n) ==
  IF req.path = "noimage" THEN Fail(400)       \* !imageId || !reviewStatus
  ELSE IF req.path = "noreviewer" THEN Fail(400)
  ELSE IF ~EntryFound(req.id) THEN Fail(404)
  ELSE IF req.path = "unmodified" THEN Fail(500)   \* result.modifiedCount === 0
  ELSE LET targetUserId == roadEntries[req.id].userId IN
       Res(200,
           ReviewUserSend(reg, targetUserId, n) \cup ReviewAdminFanout(reg, n),
           targetUserId, Delivery(reg, targetUserId), TRUE)

\* ------------------------------------------------------------------ routes
Routes == {"predict", "save-canvas", "feedback-status", "feedback-reply",
           "user-notification", "review"}

RouteResult(route, reg, req, n) ==
  CASE route = "predict" -> PredictResult(reg, req, n)
    [] route = "save-canvas" -> SaveCanvasResult(reg, req, n)
    [] route = "feedback-status" -> PatchFeedbackResult(reg, req, n)
    [] route = "feedback-reply" -> ReplyFeedbackResult(reg, req, n)
    [] route = "user-notification" -> UserNotificationResult(reg, req, n)
    [] route = "review" -> ReviewResult(reg, req, n)

\* a dispatch that drops the target's entry once it has delivered to it
Respond_Consuming(route, req, res) ==
  /\ serverUp
  /\ res.dispatch => seq < MaxDispatch
  /\ out' = res.emits
  /\ last' = [op |-> route, conn |-> NoConn, userId |-> res.target,
              http |-> res.http, delivery |-> res.delivery,
              n |-> IF res.dispatch THEN seq + 1 ELSE 0,
              path |-> IF res.dispatch THEN req.path ELSE ""]
  /\ seq' = IF res.dispatch THEN seq + 1 ELSE seq
  /\ dropped' = IF res.delivery = "not_connected" /\ ~Falsy(res.target)
                  THEN dropped \cup {<<seq + 1, res.target.chars>>}
                  ELSE dropped
  /\ userSockets' = IF res.delivery = "sent"
                      THEN MapDelete(userSockets, res.target.chars)
                      ELSE userSockets
  /\ UNCHANGED <<serverUp, status, sockUserId, sockUserType, sockIsAdmin,
                 authTimer, vtvars>>

\* the part every route shares: respond, emit, and the bookkeeping of drops
Respond(route, req, res) ==
  /\ serverUp
  /\ res.dispatch => seq < MaxDispatch
  /\ out' = res.emits
  /\ last' = [op |-> route, conn |-> NoConn, userId |-> res.target,
              http |-> res.http, delivery |-> res.delivery,
              n |-> IF res.dispatch THEN seq + 1 ELSE 0,
              path |-> IF res.dispatch THEN req.path ELSE ""]
  /\ seq' = IF res.dispatch THEN seq + 1 ELSE seq
  /\ dropped' = IF res.delivery = "not_connected" /\ ~Falsy(res.target)
                  THEN dropped \cup {<<seq + 1, res.target.chars>>}
                  ELSE dropped
  /\ UNCHANGED <<sockvars, vtvars>>

Predict(req) ==
  LET res == PredictResult(userSockets, req, seq + 1) IN
  /\ Respond("predict", req, res)
  /\ res.http = 200 /\ req.path = "road" => Len(roadEntries) < MaxDocs
  /\ roadEntries' = IF res.http = 200 /\ req.path = "road"
                      THEN Append(roadEntries, NewRoadEntry(req.userId))
                      ELSE roadEntries
  /\ UNCHANGED <<feedbacks, finalImages, pendingImmediate, auxvars>>

SaveCanvas(req, severityLevel) ==
  LET res == SaveCanvasResult(userSockets, req, seq + 1) IN
  /\ Respond("save-canvas", req, res)
  /\ res.http = 200 => Len(finalImages) < MaxDocs
  /\ finalImages' = IF res.http = 200
                      THEN Append(finalImages,
                                  [severityLevel |-> ValidSeverityLevel(severityLevel)])
                      ELSE finalImages
  /\ canvasSeverity' = IF res.http = 200 THEN ValidSeverityLevel(severityLevel)
                                          ELSE canvasSeverity
  /\ UNCHANGED <<roadEntries, feedbacks, pendingImmediate, jobvars, acctvars,
                 loginvars, statvars>>

\* identities of the clients that submit feedback
FeedbackAuthors == {Str(UserAlice)}

\* POST /api/feedback: the document is built from name, email, subject and
\* message only, so its userId is undefined; author records who submitted it
\* and is read by no route
PostFeedback(author) ==
  /\ serverUp
  /\ Len(feedbacks) < MaxDocs
  /\ feedbacks' = Append(feedbacks, [userId |-> Undefined, completed |-> FALSE,
                                      replied |-> FALSE, author |-> author])
  /\ out' = {}
  /\ last' = [Op("feedback", NoConn, Undefined) EXCEPT !.http = 200]
  /\ UNCHANGED <<sockvars, vtvars, auxvars, httpvars, roadEntries, finalImages>>

PatchFeedback(req, completed) ==
  LET res == PatchFeedbackResult(userSockets, req, seq + 1) IN
  /\ Respond("feedback-status", req, res)
  /\ feedbacks' = IF res.http = 200
                    THEN [feedbacks EXCEPT ![req.id].completed = completed]
                    ELSE feedbacks
  /\ UNCHANGED <<roadEntries, finalImages, pendingImmediate, auxvars>>

ReplyFeedback(req) ==
  LET res == ReplyFeedbackResult(userSockets, req, seq + 1) IN
  /\ Respond("feedback-reply", req, res)
  /\ feedbacks' = IF res.http = 200
                    THEN [feedbacks EXCEPT ![req.id].replied = TRUE]
                    ELSE feedbacks
  /\ UNCHANGED <<roadEntries, finalImages, pendingImmediate, auxvars>>

UserNotification(req) ==
  LET res == UserNotificationResult(userSockets, req, seq + 1) IN
  /\ Respond("user-notification", req, res)
  /\ UNCHANGED <<dbvars, pendingImmediate, auxvars>>

ReviewImageV2(req) ==
  LET res == ReviewResult(userSockets, req, seq + 1) IN
  /\ Respond("review", req, res)
  /\ roadEntries' = IF res.http = 200
                      THEN [roadEntries EXCEPT ![req.id].reviewed = TRUE,
                                               ![req.id].reviewStatus = req.path]
                      ELSE roadEntries
  /\ UNCHANGED <<feedbacks, finalImages, pendingImmediate, auxvars>>

\* ------------------------------------------------------ POST /analyze-damage
AnalyzePaths == {"nofile", "savefail", "timeout", "exitcode", "parsefail", "ok"}

AnalyzeStatus(path) ==
  CASE path = "nofile" -> 400
    [] path = "ok" -> 200
    [] OTHER -> 500

\* the request up to its response; a parsed result schedules the admin fan-out
AnalyzeDamage(path) ==
  /\ serverUp
  /\ path = "ok" => seq + pendingImmediate < MaxDispatch
  /\ pendingImmediate' = IF path = "ok" THEN pendingImmediate + 1
                                        ELSE pendingImmediate
  /\ out' = {}
  /\ last' = [Op("analyze-damage", NoConn, Undefined) EXCEPT
                !.http = AnalyzeStatus(path)]
  /\ UNCHANGED <<sockvars, vtvars, auxvars, dbvars, seq, dropped>>

\* the setImmediate callback: analysis-complete to admins only
AnalyzeEmit ==
  /\ serverUp
  /\ pendingImmediate > 0
  /\ pendingImmediate' = pendingImmediate - 1
  /\ seq' = seq + 1
  /\ out' = AdminFanout(userSockets, "analysis-complete", seq + 1)
  /\ last' = [Op("analyze-emit", NoConn, Undefined) EXCEPT !.n = seq + 1]
  /\ UNCHANGED <<sockvars, vtvars, auxvars, dbvars, dropped>>

\* ----------------------- the subprocess routes, one callback per action
\* res.status(code).json(..) on the response of a slot
Send(job, code) == [job EXCEPT !.responses = @ + 1, !.http = code]

PredictArrivals == {"nofile", "writefail", "spawn"}
PredictClosePaths == {"exitcode", "savefail", "notroad", "road"}
AnalyzeArrivals == {"nofile", "file"}
AnalyzeClosePaths == {"exitcode", "parsefail", "ok"}

\* POST /predict up to spawn(): the upload is written synchronously and no
\* timer is set
PredictReceive(j, path, userId) ==
  /\ serverUp
  /\ jobs[j].route = "none"
  /\ jobs' = [jobs EXCEPT ![j] =
       LET job == [NoJob EXCEPT !.route = "predict", !.userId = userId] IN
       CASE path = "nofile" -> Send([job EXCEPT !.pc = "done"], 400)
         [] path = "writefail" -> Send([job EXCEPT !.pc = "done"], 500)
         [] OTHER -> [job EXCEPT !.pc = "running"]]
  /\ out' = {}
  /\ last' = [Op("predict-receive", NoConn, Undefined) EXCEPT
                !.http = jobs'[j].http]
  /\ UNCHANGED <<sockvars, dbvars, httpvars, vtvars, acctvars, loginvars,
                 statvars, canvasvars>>

\* pythonProcess.on("close") of /predict: the only place that responds
PredictClose(j, path) ==
  LET req == Req(path, jobs[j].userId, 0)
      res == PredictResult(userSockets, req, seq + 1) IN
  /\ jobs[j].route = "predict"
  /\ jobs[j].pc = "running"
  /\ Respond("predict", req, res)
  /\ res.http = 200 /\ path = "road" => Len(roadEntries) < MaxDocs
  /\ roadEntries' = IF res.http = 200 /\ path = "road"
                      THEN Append(roadEntries, NewRoadEntry(req.userId))
                      ELSE roadEntries
  /\ jobs' = [jobs EXCEPT ![j] = Send([@ EXCEPT !.pc = "closed"], res.http)]
  /\ UNCHANGED <<feedbacks, finalImages, pendingImmediate, acctvars, loginvars,
                 statvars, canvasvars>>

\* POST /analyze-damage up to useOriginalMethod(): responseSent = false and
\* the upload is being written
AnalyzeReceive(j, path) ==
  /\ serverUp
  /\ jobs[j].route = "none"
  /\ jobs' = [jobs EXCEPT ![j] =
       LET job == [NoJob EXCEPT !.route = "analyze"] IN
       IF path = "nofile" THEN Send([job EXCEPT !.pc = "done"], 400)
                          ELSE [job EXCEPT !.pc = "writing"]]
  /\ out' = {}
  /\ last' = [Op("analyze-receive", NoConn, Undefined) EXCEPT
                !.http = jobs'[j].http]
  /\ UNCHANGED <<sockvars, dbvars, httpvars, vtvars, acctvars, loginvars,
                 statvars, canvasvars>>

\* fs.promises.writeFile(..).catch: if (!responseSent) { 500; responseSent = true }
AnalyzeWriteFail(j) ==
  /\ serverUp
  /\ jobs[j].route = "analyze"
  /\ jobs[j].pc = "writing"
  /\ jobs' = [jobs EXCEPT ![j] =
       IF ~jobs[j].responseSent
         THEN Send([@ EXCEPT !.pc = "done", !.responseSent = TRUE], 500)
         ELSE [@ EXCEPT !.pc = "done"]]
  /\ out' = {}
  /\ last' = [Op("analyze-writefail", NoConn, Undefined) EXCEPT
                !.http = jobs'[j].http]
  /\ UNCHANGED <<sockvars, dbvars, httpvars, vtvars, acctvars, loginvars,
                 statvars, canvasvars>>

\* runPythonProcess(): spawn, then setTimeout(.., 60000)
RunPythonProcess(j) ==
  /\ serverUp
  /\ jobs[j].route = "analyze"
  /\ jobs[j].pc = "writing"
  /\ jobs' = [jobs EXCEPT ![j].pc = "running", ![j].timer = "armed"]
  /\ out' = {}
  /\ last' = Op("analyze-spawn", NoConn, Undefined)
  /\ UNCHANGED <<sockvars, dbvars, httpvars, vtvars, acctvars, loginvars,
                 statvars, canvasvars>>

\* the 60 second timer firing:
\*   if (!responseSent) { pythonProcess.kill(); 500; responseSent = true }
AnalyzeTimeout(j) ==
  /\ serverUp
  /\ jobs[j].timer = "armed"
  /\ jobs' = [jobs EXCEPT ![j] =
       IF ~jobs[j].responseSent
         THEN Send([@ EXCEPT !.timer = "fired", !.responseSent = TRUE], 500)
         ELSE [@ EXCEPT !.timer = "fired"]]
  /\ out' = {}
  /\ last' = [Op("analyze-timeout", NoConn, Undefined) EXCEPT
                !.http = jobs'[j].http]
  /\ UNCHANGED <<sockvars, dbvars, httpvars, vtvars, acctvars, loginvars,
                 statvars, canvasvars>>

\* a close handler that leaves out "if (responseSent) return"
AnalyzeClose_NoFlagCheck(j, path) ==
  /\ serverUp
  /\ jobs[j].route = "analyze"
  /\ jobs[j].pc = "running"
  /\ jobs' = [jobs EXCEPT ![j] =
       LET job == [@ EXCEPT !.pc = "closed",
                            !.timer = IF @ = "armed" THEN "cleared" ELSE @] IN
       Send([job EXCEPT !.responseSent = TRUE],
            IF path = "ok" THEN 200 ELSE 500)]
  /\ pendingImmediate' = IF path = "ok" THEN pendingImmediate + 1
                                        ELSE pendingImmediate
  /\ out' = {}
  /\ last' = [Op("analyze-close", NoConn, Undefined) EXCEPT
                !.http = IF path = "ok" THEN 200 ELSE 500]
  /\ UNCHANGED <<sockvars, dbvars, seq, dropped, vtvars, acctvars, loginvars,
                 statvars, canvasvars>>

\* pythonProcess.on("close") of /analyze-damage: clearTimeout(timeout), then
\* nothing if responseSent, else 500 (exit code, parse failure) or 200 and the
\* setImmediate of the admin fan-out
AnalyzeClose(j, path) ==
  /\ serverUp
  /\ jobs[j].route = "analyze"
  /\ jobs[j].pc = "running"
  /\ jobs' = [jobs EXCEPT ![j] =
       LET job == [@ EXCEPT !.pc = "closed",
                            !.timer = IF @ = "armed" THEN "cleared" ELSE @] IN
       IF jobs[j].responseSent
         THEN job
         ELSE Send([job EXCEPT !.responseSent = TRUE],
                   IF path = "ok" THEN 200 ELSE 500)]
  /\ pendingImmediate' = IF ~jobs[j].responseSent /\ path = "ok"
                           THEN pendingImmediate + 1
                           ELSE pendingImmediate
  /\ out' = {}
  /\ last' = [Op("analyze-close", NoConn, Undefined) EXCEPT
                !.http = IF jobs[j].responseSent THEN 0
                         ELSE IF path = "ok" THEN 200 ELSE 500]
  /\ UNCHANGED <<sockvars, dbvars, seq, dropped, vtvars, acctvars, loginvars,
                 statvars, canvasvars>>

JobNext ==
  \/ \E j \in Jobs, path \in PredictArrivals, userId \in TargetPayloads :
       PredictReceive(j, path, userId)
  \/ \E j \in Jobs, path \in PredictClosePaths : PredictClose(j, path)
  \/ \E j \in Jobs, path \in AnalyzeArrivals : AnalyzeReceive(j, path)
  \/ \E j \in Jobs : AnalyzeWriteFail(j)
  \/ \E j \in Jobs : RunPythonProcess(j)
  \/ \E j \in Jobs : AnalyzeTimeout(j)
  \/ \E j \in Jobs, path \in AnalyzeClosePaths : AnalyzeClose(j, path)
  \/ AnalyzeEmit

\* ------------------------------------------- signup and OTP verification
Emails == {"a@example.com"}
Otps == {"111111", "222222"}     \* values generateOTP() may return

\* loginCollection.findOne({ email }) finds a document
Exists(email) == \E i \in 1..Len(loginCollection) : loginCollection[i].email = email

\* the document insertOne stores; via is the number of the otpStore.set call
\* whose code was verified (0 for a direct signup)
Account(email, via) == [email |-> email, isAdmin |-> FALSE, via |-> via]

\* otpStore.set(email, { otp, name, password, expires: Date.now() + 10 * 60 * 1000 })
OtpEntry(otp, password) ==
  [otp |-> otp, password |-> password, expires |-> now + OtpLifetime,
   id |-> issued + 1]

\* a request ends: the status and error of its response
Reply(call, http, error) ==
  [NoCall EXCEPT !.route = call.route, !.email = call.email, !.otp = call.otp,
                 !.pc = "done", !.http = http, !.error = error]

\* a request arrives on a free slot
Arrive(c, route, email) ==
  /\ serverUp
  /\ calls[c].pc \in {"idle", "done"}
  /\ UNCHANGED <<sockvars, out, last, dbvars, httpvars, vtvars, jobvars, loginvars,
                 statvars, canvasvars, now>>

\* a suspended request resumes
Resume(c, route, pc) ==
  /\ serverUp
  /\ calls[c].route = route
  /\ calls[c].pc = pc
  /\ UNCHANGED <<sockvars, out, last, dbvars, httpvars, vtvars, jobvars, loginvars,
                 statvars, canvasvars, now>>

NewCall(route, email) == [NoCall EXCEPT !.route = route, !.email = email]

\* POST /api/signup up to "await loginCollection.findOne"; complete is
\* name && email && password
SignupReceive(c, email, complete) ==
  /\ Arrive(c, "signup", email)
  /\ calls' = [calls EXCEPT ![c] =
       IF ~complete THEN Reply(NewCall("signup", email), 400, "fields")
                    ELSE [NewCall("signup", email) EXCEPT !.pc = "find"]]
  /\ UNCHANGED <<loginCollection, otpStore, issued>>

\* findOne resolves: 400 if the email has an account, else "await bcrypt.hash"
SignupFound(c) ==
  /\ Resume(c, "signup", "find")
  /\ calls' = [calls EXCEPT ![c] =
       IF Exists(calls[c].email) THEN Reply(@, 400, "exists")
                                 ELSE [@ EXCEPT !.pc = "hash"]]
  /\ UNCHANGED <<loginCollection, otpStore, issued>>

\* the hash resolves, insertOne stores the account, 201
SignupInsert(c) ==
  /\ Resume(c, "signup", "hash")
  /\ Len(loginCollection) < MaxAccounts
  /\ loginCollection' = Append(loginCollection, Account(calls[c].email, 0))
  /\ calls' = [calls EXCEPT ![c] = Reply(@, 201, "")]
  /\ UNCHANGED <<otpStore, issued>>

\* POST /api/generate-otp up to findOne; password is whether the body has one
GenerateOtpReceive(c, email, password) ==
  /\ Arrive(c, "generate-otp", email)
  /\ calls' = [calls EXCEPT ![c] =
       IF email = "" THEN Reply(NewCall("generate-otp", email), 400, "fields")
       ELSE [NewCall("generate-otp", email) EXCEPT !.pc = "find",
                                                   !.password = password]]
  /\ UNCHANGED <<loginCollection, otpStore, issued>>

\* findOne resolves: 400 if the email has an account, else the code is stored
\* and "await transporter.sendMail"
GenerateOtpFound(c, otp) ==
  /\ Resume(c, "generate-otp", "find")
  /\ ~Exists(calls[c].email) => issued < MaxIssued
  /\ IF Exists(calls[c].email)
       THEN /\ calls' = [calls EXCEPT ![c] = Reply(@, 400, "exists")]
            /\ UNCHANGED <<otpStore, issued>>
       ELSE /\ otpStore' = MapSet(otpStore, calls[c].email,
                                  OtpEntry(otp, calls[c].password))
            /\ issued' = issued + 1
            /\ calls' = [calls EXCEPT ![c].pc = "mail"]
  /\ UNCHANGED loginCollection

\* sendMail resolves or rejects: 200 either way
GenerateOtpMailed(c) ==
  /\ Resume(c, "generate-otp", "mail")
  /\ calls' = [calls EXCEPT ![c] = Reply(@, 200, "")]
  /\ UNCHANGED <<loginCollection, otpStore, issued>>

\* POST /api/signup-with-otp up to findOne
SignupWithOtpReceive(c, email, complete) ==
  /\ Arrive(c, "signup-with-otp", email)
  /\ calls' = [calls EXCEPT ![c] =
       IF ~complete THEN Reply(NewCall("signup-with-otp", email), 400, "fields")
       ELSE [NewCall("signup-with-otp", email) EXCEPT !.pc = "find",
                                                      !.password = TRUE]]
  /\ UNCHANGED <<loginCollection, otpStore, issued>>

\* findOne resolves: 400 if the email has an account, else the code is stored, 200
SignupWithOtpFound(c, otp) ==
  /\ Resume(c, "signup-with-otp", "find")
  /\ ~Exists(calls[c].email) => issued < MaxIssued
  /\ IF Exists(calls[c].email)
       THEN /\ calls' = [calls EXCEPT ![c] = Reply(@, 400, "exists")]
            /\ UNCHANGED <<otpStore, issued>>
       ELSE /\ otpStore' = MapSet(otpStore, calls[c].email,
                                  OtpEntry(otp, calls[c].password))
            /\ issued' = issued + 1
            /\ calls' = [calls EXCEPT ![c] = Reply(@, 200, "")]
  /\ UNCHANGED loginCollection

\* POST /api/verify-otp up to "await bcrypt.hash": the checks of the body and
\* of otpStore.get(email); an expired entry is deleted
VerifyOtpReceive(c, email, otp, password) ==
  LET call == [NewCall("verify-otp", email) EXCEPT !.otp = otp] IN
  /\ Arrive(c, "verify-otp", email)
  /\ IF email = "" \/ otp = ""
       THEN /\ calls' = [calls EXCEPT ![c] = Reply(call, 400, "fields")]
            /\ UNCHANGED otpStore
     ELSE IF ~MapHas(otpStore, email)
       THEN /\ calls' = [calls EXCEPT ![c] = Reply(call, 400, "nootp")]
            /\ UNCHANGED otpStore
     ELSE IF now > otpStore[email].expires
       THEN /\ calls' = [calls EXCEPT ![c] = Reply(call, 400, "expired")]
            /\ otpStore' = MapDelete(otpStore, email)
     ELSE IF otpStore[email].otp # otp
       THEN /\ calls' = [calls EXCEPT ![c] = Reply(call, 400, "invalid")]
            /\ UNCHANGED otpStore
     ELSE IF ~(password \/ otpStore[email].password)
       THEN /\ calls' = [calls EXCEPT ![c] = Reply(call, 400, "nopassword")]
            /\ UNCHANGED otpStore
     ELSE /\ calls' = [calls EXCEPT ![c] =
                         [call EXCEPT !.pc = "hash", !.via = otpStore[email].id]]
          /\ UNCHANGED otpStore
  /\ UNCHANGED <<loginCollection, issued>>

\* the hash resolves and insertOne stores the account
VerifyOtpInsert(c) ==
  /\ Resume(c, "verify-otp", "hash")
  /\ Len(loginCollection) < MaxAccounts
  /\ loginCollection' = Append(loginCollection, Account(calls[c].email, calls[c].via))
  /\ calls' = [calls EXCEPT ![c].pc = "insert"]
  /\ UNCHANGED <<otpStore, issued>>

\* insertOne resolves: otpStore.delete(email), 201
VerifyOtpDone(c) ==
  /\ Resume(c, "verify-otp", "insert")
  /\ otpStore' = MapDelete(otpStore, calls[c].email)
  /\ calls' = [calls EXCEPT ![c] = Reply(@, 201, "")]
  /\ UNCHANGED <<loginCollection, issued>>

\* time passes
Tick ==
  /\ serverUp
  /\ now < MaxTime
  /\ now' = now + 1
  /\ UNCHANGED <<sockvars, out, last, dbvars, httpvars, vtvars, jobvars, loginvars,
                 statvars, canvasvars, loginCollection, otpStore, calls, issued>>

AcctNext ==
  \/ \E c \in Calls, email \in Emails, complete \in BOOLEAN :
       SignupReceive(c, email, complete)
  \/ \E c \in Calls : SignupFound(c)
  \/ \E c \in Calls : SignupInsert(c)
  \/ \E c \in Calls, email \in Emails \cup {""}, password \in BOOLEAN :
       GenerateOtpReceive(c, email, password)
  \/ \E c \in Calls, otp \in Otps : GenerateOtpFound(c, otp)
  \/ \E c \in Calls : GenerateOtpMailed(c)
  \/ \E c \in Calls, email \in Emails, complete \in BOOLEAN :
       SignupWithOtpReceive(c, email, complete)
  \/ \E c \in Calls, otp \in Otps : SignupWithOtpFound(c, otp)
  \/ \E c \in Calls, email \in Emails \cup {""}, otp \in Otps \cup {""},
        password \in BOOLEAN :
       VerifyOtpReceive(c, email, otp, password)
  \/ \E c \in Calls : VerifyOtpInsert(c)
  \/ \E c \in Calls : VerifyOtpDone(c)
  \/ Tick

\* ---------------------------------------------------------- POST /api/login
\* what decides the route's path: the hardcoded admin credentials, findOne
\* finding nothing, bcrypt.compare false or throwing, or a matching account
LoginKinds == {"hardcoded", "notfound", "badpassword", "bcrypterror", "ok"}

\* user.isAdmin of the stored account
IsAdminFields == {"true", "false", "absent"}

\* user._id: the 12 bytes of the ObjectId that insertOne generated
ObjectIds == {[i \in 1..12 |-> b] : b \in {0, 10, 171, 255}}

\* Date.now()
NowValues == {0, 7, 1762000000}

LoginInputs ==
  [kind : LoginKinds, isAdmin : IsAdminFields, id : ObjectIds, now : NowValues]

DecimalDigits == <<"0", "1", "2", "3", "4", "5", "6", "7", "8", "9">>
HexDigits == DecimalDigits \o <<"a", "b", "c", "d", "e", "f">>

\* "" + n for a non-negative integer
RECURSIVE ToDecimal(_)
ToDecimal(n) ==
  IF n < 10 THEN <<DecimalDigits[n + 1]>>
  ELSE ToDecimal(n \div 10) \o <<DecimalDigits[(n % 10) + 1]>>

\* ObjectId.prototype.toString(): two lowercase hexadecimal digits per byte
RECURSIVE ToHexString(_)
ToHexString(bytes) ==
  IF bytes = <<>> THEN <<>>
  ELSE <<HexDigits[(Head(bytes) \div 16) + 1], HexDigits[(Head(bytes) % 16) + 1]>>
         \o ToHexString(Tail(bytes))

LoginFail(http) == [http |-> http, userId |-> Undefined, isAdmin |-> FALSE,
                    userType |-> ""]

\* a login that hands database admins their plain id
Login_AdminPlainId(req) ==
  IF req.kind = "hardcoded"
    THEN [http |-> 200, userId |-> Str(AdminPrefix \o ToDecimal(req.now)),
          isAdmin |-> TRUE, userType |-> "admin"]
  ELSE IF req.kind \in {"notfound", "badpassword", "bcrypterror"}
    THEN LoginFail(401)
  ELSE LET isAdmin == req.isAdmin = "true" IN
       [http |-> 200, userId |-> Str(ToHexString(req.id)),
        isAdmin |-> isAdmin, userType |-> IF isAdmin THEN "admin" ELSE "user"]

\* the response of POST /api/login
Login(req) ==
  IF req.kind = "hardcoded"
    THEN [http |-> 200, userId |-> Str(AdminPrefix \o ToDecimal(req.now)),
          isAdmin |-> TRUE, userType |-> "admin"]
  ELSE IF req.kind \in {"notfound", "badpassword", "bcrypterror"}
    THEN LoginFail(401)
  ELSE LET isAdmin == req.isAdmin = "true"        \* user.isAdmin === true
           id == ToHexString(req.id)               \* user._id.toString()
       IN [http |-> 200,
           userId |-> Str(IF isAdmin THEN AdminPrefix \o id ELSE id),
           isAdmin |-> isAdmin, userType |-> IF isAdmin THEN "admin" ELSE "user"]

\* the client's login request and the account it names
LoginInit ==
  /\ CoreInit
  /\ JobInit /\ AcctInit /\ StatsQuiet /\ CanvasInit
  /\ loginReq \in LoginInputs
  /\ loginRes = NoLoginRes

PostLogin ==
  /\ serverUp
  /\ loginRes = NoLoginRes
  /\ loginRes' = Login(loginReq)
  /\ out' = {}
  /\ last' = [Op("login", NoConn, Undefined) EXCEPT !.http = loginRes'.http]
  /\ UNCHANGED <<sockvars, dbvars, httpvars, vtvars, jobvars, acctvars, statvars,
                 canvasvars, loginReq>>

\* a client logs in and authenticates its socket with the userId it was given
LoginNext ==
  \/ PostLogin
  \/ \E c \in 1..MaxHttpConns : Connect(c)
  \/ \E c \in 1..MaxHttpConns : loginRes.http = 200 /\ Authenticate(c, loginRes.userId)

\* --------------------------------------------------- GET /api/report-stats
\* the reviewed and reviewStatus fields of an entry, "absent" when missing
ReviewedFields == {"true", "false", "absent"}
ReviewStatusFields == {"pending", "approved", "rejected", "in-progress", "absent"}
StatEntryKinds == [reviewed : ReviewedFields, reviewStatus : ReviewStatusFields]

StatEntryLists == UNION {[1..n -> StatEntryKinds] : n \in 0..MaxStatEntries}

\* !entry.reviewed || entry.reviewStatus === 'pending'
IsPending(entry) == entry.reviewed # "true" \/ entry.reviewStatus = "pending"

\* entry.reviewed && entry.reviewStatus !== 'pending'
IsReviewed(entry) == entry.reviewed = "true" /\ entry.reviewStatus # "pending"

\* allEntries.filter(entry => ...).length for each of the two filters
PendingLength(entries) == Cardinality({i \in 1..Len(entries) : IsPending(entries[i])})
ReviewedLength(entries) == Cardinality({i \in 1..Len(entries) : IsReviewed(entries[i])})

\* a pending filter that looks at reviewStatus only
ReportStats_PendingByStatus(entries) ==
  [http |-> 200, total |-> Len(entries),
   pending |-> Cardinality({i \in 1..Len(entries) :
                              entries[i].reviewStatus = "pending"}),
   reviewed |-> ReviewedLength(entries)]

\* the 200 response
ReportStats(entries) ==
  [http |-> 200, total |-> Len(entries),
   pending |-> PendingLength(entries),
   reviewed |-> ReviewedLength(entries)]

\* the entries RoadEntry.find will return
StatsInit ==
  /\ CoreInit
  /\ JobInit /\ AcctInit /\ LoginQuiet /\ CanvasInit
  /\ statsEntries \in StatEntryLists
  /\ statsRes = NoStats

\* found is FALSE when RoadEntry.find rejects
GetReportStats(found) ==
  /\ serverUp
  /\ statsRes = NoStats
  /\ statsRes' = IF found THEN ReportStats(statsEntries)
                          ELSE [NoStats EXCEPT !.http = 500]
  /\ out' = {}
  /\ last' = [Op("report-stats", NoConn, Undefined) EXCEPT !.http = statsRes'.http]
  /\ UNCHANGED <<sockvars, dbvars, httpvars, vtvars, jobvars, acctvars, loginvars,
                 canvasvars, statsEntries>>

StatsNext == \E found \in BOOLEAN : GetReportStats(found)

\* document ids a request may name: the stored ones and one that is not stored
FeedbackIds == 1..(MaxDocs + 1)
EntryIds == 1..(MaxDocs + 1)

\* the requests each route is tried with
PredictReqs ==
  {Req(path, u, 0) : path \in PredictFailures \cup PredictOutcomes, u \in TargetPayloads}
SaveCanvasReqs ==
  {Req(path, Undefined, 0) : path \in SaveCanvasPaths} \cup {Req("ok", Str(UserAlice), 0)}
PatchFeedbackReqs == {Req("", Undefined, id) : id \in FeedbackIds}
ReplyFeedbackReqs ==
  {Req(path, u, id) : path \in ReplyPaths, u \in {Undefined, Str(Admin1)}, id \in FeedbackIds}
UserNotificationReqs ==
  {Req("found", u, 0) : u \in TargetPayloads \cup {Str(HexUser), Num(42)}}
    \cup {Req("notfound", Str(HexUser), 0)}
ReviewReqs ==
  {Req(path, Undefined, 0) : path \in ReviewRejects}
    \cup {Req(path, Undefined, id) : path \in ReviewPaths, id \in EntryIds}

PredictNext == \E req \in PredictReqs : Predict(req)

SaveCanvasNext ==
  \E req \in SaveCanvasReqs, sev \in SeverityInputs :
    /\ Falsy(req.userId) => sev = ""
    /\ SaveCanvas(req, sev)

\* severityLevel values of a /save-canvas body: absent (""), the alias, the
\* enum values, and strings that are neither
SeverityPayloads ==
  SeverityEnum \cup SeverityInputs \cup {"Medium", "HIGH", "critical", "moderate "}

CanvasNext ==
  \E req \in SaveCanvasReqs, sev \in SeverityPayloads : SaveCanvas(req, sev)

FeedbackNext ==
  \/ \E author \in FeedbackAuthors : PostFeedback(author)
  \/ \E req \in PatchFeedbackReqs, completed \in BOOLEAN : PatchFeedback(req, completed)
  \/ \E req \in ReplyFeedbackReqs : ReplyFeedback(req)

UserNotificationNext == \E req \in UserNotificationReqs : UserNotification(req)

ReviewNext == \E req \in ReviewReqs : ReviewImageV2(req)

AnalyzeNext ==
  \/ \E path \in AnalyzePaths : AnalyzeDamage(path)
  \/ AnalyzeEmit

HttpNext ==
  \/ PredictNext
  \/ SaveCanvasNext
  \/ FeedbackNext
  \/ UserNotificationNext
  \/ ReviewNext
  \/ AnalyzeNext

\* the routes with an admin fan-out
AdminRouteNext == PredictNext \/ SaveCanvasNext \/ ReviewNext \/ AnalyzeNext

\* every route, with the connection handlers on MaxHttpConns handles
Next == SocketStep(1..MaxHttpConns) \/ HttpNext

Spec == Init /\ [][Next]_vars

\* the admin fan-out routes, with the connection handlers on every handle
FanoutNext == SocketNext \/ AdminRouteNext

FanoutSpec == Init /\ [][FanoutNext]_vars

\* the connection handlers alone
SockSpec == Init /\ [][SocketNext]_vars

\* timers fire: the event loop runs every due setTimeout callback
LiveSockSpec == SockSpec /\ \A c \in Conns : WF_vars(AuthTimeout(c))

\* ------------------------------------------- validateUserType called directly
ClassifyAlphabet == {"a", "_", "g", "F"}

Fill(ch, n) == [i \in 1..n |-> ch]

ShortStrings == UNION {[1..n -> ClassifyAlphabet] : n \in 0..MaxShortLen}

PrefixStrings ==
  {SubSeq(AdminPrefix, 1, k) : k \in 0..Len(AdminPrefix)}
    \cup {AdminPrefix \o s : s \in {<<>>, <<"a">>, <<"_">>}}
    \cup {<<"x">> \o AdminPrefix, <<"A">> \o Tail(AdminPrefix), Admin1, UserAlice, Bob}

HexStrings ==
  {Fill(ch, n) : ch \in {"a", "F", "0", "g"}, n \in {HexLen - 1, HexLen, HexLen + 1}}
    \cup {Fill("a", HexLen - 1) \o <<ch>> : ch \in {"g", "_", "G", " "}}
    \cup {HexUser}

ClassifyInputs == {Str(s) : s \in ShortStrings \cup PrefixStrings \cup HexStrings}

ClassifyInit ==
  /\ serverUp = TRUE
  /\ status = [c \in Conns |-> "new"]
  /\ sockUserId = [c \in Conns |-> Undefined]
  /\ sockUserType = [c \in Conns |-> "none"]
  /\ sockIsAdmin = [c \in Conns |-> FALSE]
  /\ authTimer = [c \in Conns |-> "none"]
  /\ userSockets = EmptyMap
  /\ out = {}
  /\ last = Op("init", NoConn, Undefined)
  /\ roadEntries = <<>>
  /\ feedbacks = <<>>
  /\ finalImages = <<>>
  /\ pendingImmediate = 0
  /\ seq = 0
  /\ dropped = {}
  /\ vtInput \in ClassifyInputs
  /\ vtResult = NoResult
  /\ AuxInit

Classify ==
  /\ vtResult = NoResult
  /\ vtResult' = validateUserType(vtInput)
  /\ UNCHANGED <<sockvars, out, last, dbvars, httpvars, vtInput, auxvars>>

ClassifySpec == ClassifyInit /\ [][Classify]_vars

\* the signup and OTP routes with MaxCalls requests in flight
AcctSpec == Init /\ [][AcctNext]_vars

\* login followed by the socket handshake
LoginSpec == LoginInit /\ [][LoginNext]_vars

\* /save-canvas with the connection handlers on MaxHttpConns handles
CanvasSpec == Init /\ [][SocketStep(1..MaxHttpConns) \/ CanvasNext]_vars

\* /api/report-stats over every list of entries
StatsSpec == StatsInit /\ [][StatsNext]_vars

\* the subprocess routes with MaxJobs requests in flight
JobSpec == Init /\ [][JobNext]_vars

\* timers that are armed fire, an upload being written finishes or fails, and
\* queued setImmediate callbacks run; nothing makes a subprocess exit
LiveJobSpec ==
  /\ JobSpec
  /\ \A j \in Jobs : WF_vars(AnalyzeTimeout(j))
  /\ \A j \in Jobs : WF_vars(AnalyzeWriteFail(j) \/ RunPythonProcess(j))
  /\ WF_vars(AnalyzeEmit)

\* ==================================================================== claims

\* C1: if H1 then H2 both authenticate as identity i, a later disconnect of H1
\* (the stale handle) leaves the entry for i in place, still holding H2; the
\* disconnect of the handle on file removes the entry.
C1_StaleDisconnectKeepsEntry ==
  [][\A c \in Conns :
       (last'.op = "disconnect" /\ last'.conn = c /\ ~Falsy(sockUserId[c])
          /\ MapHas(userSockets, sockUserId[c].chars))
       => LET i == sockUserId[c].chars IN
          IF userSockets[i] # c
            THEN MapHas(userSockets', i) /\ userSockets'[i] = userSockets[i]
            ELSE ~MapHas(userSockets', i)]_vars

\* C2: a connection that never sends authenticate is disconnected by its
\* authentication deadline, and the registry never holds its handle.
NeverAuthenticated(c) == authTimer[c] \in {"pending", "fired"}

C2_NoAuthenticateMeansDeadline ==
  /\ [](\A c \in Conns :
          NeverAuthenticated(c)
          => /\ \A i \in DOMAIN userSockets : userSockets[i] # c
             /\ authTimer[c] = "fired" => status[c] = "closed")
  /\ \A c \in Conns :
       (status[c] = "open") ~> (status[c] = "closed" \/ ~NeverAuthenticated(c))

C2_Witness ==
  /\ last.op = "authTimeout"
  /\ last.delivery = "disconnected"
  /\ status[last.conn] = "closed"
  /\ \E i \in DOMAIN userSockets : userSockets[i] # last.conn

\* C3: a connection that is still unauthenticated when its deadline elapses is
\* force-terminated, also when its only authenticate attempts were rejected:
\* an open connection without identity does not stay open for ever.
C3_UnauthenticatedIsTerminated ==
  \A c \in Conns :
    (status[c] = "open" /\ Falsy(sockUserId[c]))
      ~> (status[c] = "closed" \/ ~Falsy(sockUserId[c]))

\* C4: the last successful authenticate wins: after it the registry maps the
\* identity to the authenticating handle, and every other entry is as before.
ValidAuthenticate(l) ==
  l.op = "authenticate" /\ l.delivery # "threw" /\ validateUserType(l.userId).valid

C4_LastAuthenticateWins ==
  [][ValidAuthenticate(last')
       => LET i == last'.userId.chars IN
          /\ DOMAIN userSockets' = DOMAIN userSockets \cup {i}
          /\ userSockets'[i] = last'.conn
          /\ \A j \in DOMAIN userSockets \ {i} : userSockets'[j] = userSockets[j]]_vars

\* H2 has just authenticated as the identity that the open connection H1 holds,
\* while another identity is registered as well
C4_Witness ==
  /\ ValidAuthenticate(last)
  /\ \E h1 \in Conns \ {last.conn} :
       status[h1] = "open" /\ sockUserId[h1] = last.userId
  /\ userSockets[last.userId.chars] = last.conn
  /\ \E j \in DOMAIN userSockets : j # last.userId.chars

\* C5: after a connection authenticates with a valid identity i the registry
\* maps i to it and auth_success with i and its role was emitted to it; when the
\* connection on file for i disconnects, the registry has no entry for i.
C5_AuthenticateThenDisconnect ==
  [][/\ ValidAuthenticate(last')
          => /\ MapHas(userSockets', last'.userId.chars)
             /\ userSockets'[last'.userId.chars] = last'.conn
             /\ sockUserId'[last'.conn] = last'.userId
             /\ Event(last'.conn, "auth_success", last'.userId,
                      IF StartsWith(last'.userId.chars, AdminPrefix)
                        THEN "admin" ELSE "user", 0) \in out'
     /\ \A c \in Conns :
          (last'.op = "disconnect" /\ last'.conn = c /\ ~Falsy(sockUserId[c])
             /\ Lookup(userSockets, sockUserId[c]) = c)
          => ~MapHas(userSockets', sockUserId[c].chars)]_vars

\* the connection on file for its identity has just disconnected
C5_Witness ==
  /\ last.op = "disconnect"
  /\ ~Falsy(last.userId)
  /\ sockUserId[last.conn] = last.userId
  /\ status[last.conn] = "closed"
  /\ ~MapHas(userSockets, last.userId.chars)

\* C6: validateUserType classifies a string by its shape: admin iff it starts
\* with "admin_"; user iff it does not and it contains "_" or is exactly 24
\* hexadecimal characters; invalid otherwise; never both roles.
ShapeAdmin(s) ==
  Len(s) >= Len(AdminPrefix) /\ SubSeq(s, 1, Len(AdminPrefix)) = AdminPrefix
ShapeUser(s) ==
  /\ ~ShapeAdmin(s)
  /\ \/ \E k \in 1..Len(s) : s[k] = "_"
     \/ Len(s) = 24 /\ \A k \in 1..Len(s) : s[k] \in HexChars

C6_ClassifiedByShape ==
  vtResult # NoResult
  => /\ ~vtResult.threw
     /\ (vtResult.valid /\ vtResult.userType = "admin") <=> ShapeAdmin(vtInput.chars)
     /\ (vtResult.valid /\ vtResult.userType = "user") <=> ShapeUser(vtInput.chars)
     /\ ~vtResult.valid <=> (~ShapeAdmin(vtInput.chars) /\ ~ShapeUser(vtInput.chars))
     /\ vtResult.isAdmin <=> (vtResult.valid /\ vtResult.userType = "admin")

C6_Witness ==
  /\ vtInput = Str(HexUser)
  /\ vtResult.valid
  /\ vtResult.userType = "user"

\* C7: every admin-targeted dispatch delivers to the socket on file of every
\* identity classified as admin, and to no connection registered under an
\* identity classified as user (here: registered as user and not as admin).
AdminDispatch(l) ==
  /\ l.n > 0
  /\ \/ l.op \in {"save-canvas", "analyze-emit", "review"}
     \/ l.op = "predict" /\ l.path = "road"

RegisteredAs(c, role) ==
  \E k \in DOMAIN userSockets :
    userSockets[k] = c /\ validateUserType(Str(k)).userType = role

C7_AdminFanoutAdminsOnly ==
  AdminDispatch(last)
  => /\ \A k \in DOMAIN userSockets :
          validateUserType(Str(k)).userType = "admin"
          => \E e \in out : e.userType = "admin" /\ e.to = userSockets[k]
     /\ \A c \in Conns :
          (RegisteredAs(c, "user") /\ ~RegisteredAs(c, "admin"))
          => \A e \in out : e.userType = "admin" => e.to \notin {c, Broadcast}

\* C8: an HTTP-triggered dispatch leaves the registry as it was, and a
\* SpecificUser send to an identity without entry emits nothing for that user and
\* answers "not connected" with status 200.
HttpOps == Routes \cup {"feedback", "analyze-damage", "analyze-emit"}

C8_DispatchLeavesRegistry ==
  [][last'.op \in HttpOps
       => /\ userSockets' = userSockets
          /\ (last'.n > 0 /\ last'.op \in Routes /\ last'.userId.kind = "string"
                /\ ~MapHas(userSockets, last'.userId.chars))
             => /\ \A e \in out' : e.userType # "user"
                /\ last'.delivery = "not_connected"
                /\ last'.http = 200]_vars

\* user_a is not registered while another identity is; a dispatch to user_a
\* has just answered 200
C8_Witness ==
  /\ last.op \in Routes
  /\ last.n > 0
  /\ last.userId = Str(UserAlice)
  /\ ~MapHas(userSockets, UserAlice)
  /\ userSockets # EmptyMap
  /\ last.delivery = "not_connected"
  /\ last.http = 200

RouteReqs(route) ==
  CASE route = "predict" -> PredictReqs
    [] route = "save-canvas" -> SaveCanvasReqs
    [] route = "feedback-status" -> PatchFeedbackReqs
    [] route = "feedback-reply" -> ReplyFeedbackReqs
    [] route = "user-notification" -> UserNotificationReqs
    [] route = "review" -> ReviewReqs

RouteStep(route, req) ==
  CASE route = "predict" -> Predict(req)
    [] route = "save-canvas" -> \E sev \in SeverityInputs : SaveCanvas(req, sev)
    [] route = "feedback-status" -> \E completed \in BOOLEAN : PatchFeedback(req, completed)
    [] route = "feedback-reply" -> ReplyFeedback(req)
    [] route = "user-notification" -> UserNotification(req)
    [] route = "review" -> ReviewImageV2(req)

\* every combination of presence and absence of the sample identities
AltRegistries ==
  {[k \in K |-> 1] : K \in SUBSET {Admin1, UserAlice, HexUser}}

C10_StatusIgnoresRegistry ==
  [][\A route \in Routes :
       last'.op = route
       => \A req \in RouteReqs(route) :
            RouteStep(route, req)
            => \A reg2 \in AltRegistries :
                 RouteResult(route, reg2, req, seq + 1).http = last'.http]_vars

\* a notification to a connected target answered 200
C10_Witness ==
  /\ last.op = "user-notification"
  /\ last.http = 200
  /\ last.delivery = "sent"

\* C11: a saved review sends image-reviewed tagged for the user to the handle on
\* file for the submitter, if there is one, and a separate image-reviewed tagged
\* for admins to the handle of every registered admin identity; either happens
\* without the other (admins are notified when the submitter has no entry, the
\* submitter when no admin has one).
C11_ReviewNotifiesBothAudiences ==
  (last.op = "review" /\ last.n > 0)
  => /\ Lookup(userSockets, last.userId) # NoConn
        => Event(Lookup(userSockets, last.userId), "image-reviewed",
                 last.userId, "user", last.n) \in out
     /\ \A k \in AdminKeys(userSockets) :
          Event(userSockets[k], "image-reviewed", Str(k), "admin", last.n) \in out

\* a review whose submitter has no entry has just notified a registered admin
C11_Witness ==
  /\ last.op = "review"
  /\ last.http = 200
  /\ last.delivery = "not_connected"
  /\ \E e \in out : e.event = "image-reviewed" /\ e.userType = "admin" /\ e.to # Broadcast

\* C12: every upload to /predict whose classification subprocess finishes,
\* with success or with failure, sends prediction-complete to the handle on file
\* for the submitter named by userId, if there is one.
PredictFinished(req) == req.path \notin {"nofile", "writefail"}

C12_SubmitterGetsCompletion ==
  [][\A req \in PredictReqs :
       (last'.op = "predict" /\ PredictFinished(req) /\ Predict(req)
          /\ Lookup(userSockets, req.userId) # NoConn)
       => \E e \in out' : /\ e.event = "prediction-complete"
                          /\ e.to = Lookup(userSockets, req.userId)
                          /\ e.userId = req.userId]_vars

\* C13: an upload classified as a road sends new-road-entry and
\* admin-notification to the handle of every registered admin identity, and a
\* new-road-entry is emitted only by a step that has saved the RoadEntry; an
\* upload that is not a road, or has no userId, emits no new-road-entry.
C13_RoadAnnouncedAfterSave ==
  [][/\ (last'.op = "predict" /\ last'.path = "road" /\ last'.n > 0)
          => \A k \in AdminKeys(userSockets) :
               /\ Event(userSockets[k], "new-road-entry", Str(k), "admin", last'.n)
                    \in out'
               /\ Event(userSockets[k], "admin-notification", Str(k), "admin", last'.n)
                    \in out'
     /\ (\E e \in out' : e.event = "new-road-entry")
          => /\ last'.op = "predict"
             /\ last'.path = "road"
             /\ ~Falsy(last'.userId)
             /\ roadEntries' = Append(roadEntries, NewRoadEntry(last'.userId))]_vars

\* a registered admin has just been told of a road entry that is now stored
C13_Witness ==
  /\ last.op = "predict"
  /\ last.path = "road"
  /\ \E e \in out : e.event = "new-road-entry" /\ e.to \in Conns
  /\ Len(roadEntries) > 0
  /\ roadEntries[Len(roadEntries)].userId = last.userId

\* C14: once a feedback was submitted through POST /api/feedback, marking it
\* complete sends feedback_status, and replying to it sends feedback_reply, to
\* the handle on file for the feedback's author whenever the author has one.
C14_FeedbackAuthorNotified ==
  [][/\ \A req \in PatchFeedbackReqs :
          (last'.op = "feedback-status" /\ last'.http = 200
             /\ PatchFeedback(req, TRUE)
             /\ Lookup(userSockets, feedbacks[req.id].author) # NoConn)
          => \E e \in out' : /\ e.event = "feedback_status"
                             /\ e.to = Lookup(userSockets, feedbacks[req.id].author)
     /\ \A req \in ReplyFeedbackReqs :
          (last'.op = "feedback-reply" /\ last'.http = 200
             /\ ReplyFeedback(req)
             /\ Lookup(userSockets, feedbacks[req.id].author) # NoConn)
          => \E e \in out' : /\ e.event = "feedback_reply"
                             /\ e.to = Lookup(userSockets, feedbacks[req.id].author)]_vars

\* C15: an authenticate payload that is present but is not a string raises no
\* error out of the handler: it is rejected with auth_error like any invalid
\* identity, the registry and the session are unchanged, and the server goes on
\* serving every connection.
C15_MalformedPayloadRejected ==
  [][(last'.op = "authenticate" /\ last'.userId.kind = "number")
       => /\ last'.delivery # "threw"
          /\ serverUp'
          /\ status' = status
          /\ userSockets' = userSockets
          /\ sockUserId' = sockUserId
          /\ Event(last'.conn, "auth_error", Undefined, "none", 0) \in out']_vars

\* C16: the role comes from the identity string alone: a connection that sends
\* authenticate with a string starting with "admin_" gets the admin role and the
\* registry entry of that identity, whatever else the server holds (no login ever
\* issued the identity), and while its handle is on file for the identity every
\* admin-targeted dispatch is sent to it.
C16_AdminByPrefixAlone ==
  [][/\ (last'.op = "authenticate" /\ last'.userId.kind = "string"
           /\ StartsWith(last'.userId.chars, AdminPrefix))
          => /\ sockUserType'[last'.conn] = "admin"
             /\ sockIsAdmin'[last'.conn]
             /\ Lookup(userSockets', last'.userId) = last'.conn
             /\ Event(last'.conn, "auth_success", last'.userId, "admin", 0) \in out'
     /\ AdminDispatch(last')
          => \A c \in Conns :
               (status[c] = "open" /\ sockIsAdmin[c]
                  /\ Lookup(userSockets, sockUserId[c]) = c)
               => \E e \in out' : e.to = c /\ e.userType = "admin" /\ e.n = last'.n]_vars

\* a connection that claimed admin_1 has just been sent an admin notification
C16_Witness ==
  /\ AdminDispatch(last)
  /\ \E c \in Conns :
       /\ status[c] = "open"
       /\ sockUserId[c] = Str(Admin1)
       /\ sockIsAdmin[c]
       /\ \E e \in Received(c) : e.to = c /\ e.userType = "admin" /\ e.n = last.n

\* C17: in every reachable state each registry entry i -> h holds the handle of
\* a connection that is connected and whose session identity is i.
C17_EntriesAreLiveSessions ==
  \A i \in DOMAIN userSockets :
    /\ status[userSockets[i]] = "open"
    /\ sockUserId[userSockets[i]] = Str(i)

\* C18: a reconnect event on a connection that has an identity puts this
\* connection's handle on file for that identity, whatever handle was there,
\* leaves the other entries alone and emits auth_success with the stored
\* identity and role; on a connection without identity it changes nothing and
\* emits nothing.
C18_ReconnectReRegisters ==
  [][\A c \in Conns :
       (last'.op = "reconnect" /\ last'.conn = c)
       => /\ <<status', sockUserId', sockUserType', sockIsAdmin'>>
               = <<status, sockUserId, sockUserType, sockIsAdmin>>
          /\ IF ~Falsy(sockUserId[c])
               THEN /\ Lookup(userSockets', sockUserId[c]) = c
                    /\ DOMAIN userSockets' = DOMAIN userSockets \cup {sockUserId[c].chars}
                    /\ \A j \in DOMAIN userSockets :
                         j # sockUserId[c].chars => userSockets'[j] = userSockets[j]
                    /\ out' = {Event(c, "auth_success", sockUserId[c],
                                     sockUserType[c], 0)}
               ELSE /\ userSockets' = userSockets
                    /\ out' = {}]_vars

\* a reconnect has put its connection on file for an identity that another
\* open connection holds as well
C18_Witness ==
  /\ last.op = "reconnect"
  /\ ~Falsy(last.userId)
  /\ Lookup(userSockets, last.userId) = last.conn
  /\ \E e \in out : e.event = "auth_success" /\ e.to = last.conn
  /\ \E d \in Conns : d # last.conn /\ status[d] = "open" /\ sockUserId[d] = last.userId

\* C19: an authenticate event whose identity is empty, absent or a string of no
\* recognized format emits auth_error to its connection and no auth_success,
\* leaves the registry and the session's identity and role as they were, and
\* does not disconnect the connection.
InvalidIdentity(v) ==
  \/ Falsy(v)
  \/ v.kind = "string" /\ ~ShapeAdmin(v.chars) /\ ~ShapeUser(v.chars)

C19_InvalidIdentityRejected ==
  [][\A c \in Conns :
       (last'.op = "authenticate" /\ last'.conn = c /\ InvalidIdentity(last'.userId))
       => /\ Event(c, "auth_error", Undefined, "none", 0) \in out'
          /\ \A e \in out' : e.event # "auth_success"
          /\ userSockets' = userSockets
          /\ sockUserId'[c] = sockUserId[c]
          /\ sockUserType'[c] = sockUserType[c]
          /\ sockIsAdmin'[c] = sockIsAdmin[c]
          /\ status'[c] = "open"
          /\ serverUp']_vars

\* an authenticated, registered connection has just had an empty identity
\* rejected and is still open
C19_Witness ==
  /\ last.op = "authenticate"
  /\ last.userId = Str(<<>>)
  /\ ~Falsy(sockUserId[last.conn])
  /\ Lookup(userSockets, sockUserId[last.conn]) = last.conn
  /\ status[last.conn] = "open"
  /\ \E e \in out : e.event = "auth_error" /\ e.to = last.conn

\* C20: a connection that has successfully authenticated is never
\* force-disconnected by the authentication deadline: no run of the timer
\* callback closes a connection whose session has an identity.
C20_DeadlineSparesAuthenticated ==
  [][\A c \in Conns :
       (~Falsy(sockUserId[c]) /\ status[c] = "open"
          /\ last'.op = "authTimeout" /\ last'.conn = c)
       => /\ status'[c] = "open"
          /\ userSockets' = userSockets]_vars /\
  [](\A c \in Conns :
       (~Falsy(sockUserId[c]) /\ status[c] = "closed")
       => ~(last.op = "authTimeout" /\ last.conn = c /\ last.delivery = "disconnected"))

\* the deadline has just closed another connection while an authenticated one,
\* its timer cancelled, stays open
C20_Witness ==
  /\ last.op = "authTimeout"
  /\ last.delivery = "disconnected"
  /\ \E c \in Conns :
       /\ c # last.conn
       /\ ~Falsy(sockUserId[c])
       /\ status[c] = "open"
       /\ authTimer[c] = "cleared"

\* C21: every request that has spawned the subprocess, on /predict and on
\* /analyze-damage alike, eventually gets an HTTP response, whether or not the
\* subprocess ever exits.
C21_SpawnedRequestAnswered ==
  \A j \in Jobs : (jobs[j].pc = "running") ~> (jobs[j].responses > 0)

\* the /analyze-damage half of C21: its timer answers when the subprocess
\* does not
AnalyzeSpawnAnswered ==
  \A j \in Jobs :
    (jobs[j].route = "analyze" /\ jobs[j].pc = "running") ~> (jobs[j].responses > 0)

\* C24: a /analyze-damage request is answered at most once; a close that comes
\* after the timer has answered sends nothing, and a request whose subprocess
\* has closed has no armed timer left.
C24_AnalyzeAnswersOnce ==
  /\ [](\A j \in Jobs :
          jobs[j].route = "analyze"
            => /\ jobs[j].responses <= 1
               /\ (jobs[j].pc = "closed" => jobs[j].timer # "armed")
               /\ (jobs[j].responseSent => jobs[j].responses = 1))
  /\ [][\A j \in Jobs :
          (jobs[j].timer = "fired" /\ jobs[j].pc = "running"
             /\ jobs'[j].pc = "closed")
            => (jobs'[j].responses = jobs[j].responses /\ jobs'[j].http = 500)]_vars

\* the timer answered first and the subprocess closed afterwards
C24_Witness ==
  \E j \in Jobs :
    /\ jobs[j].route = "analyze"
    /\ jobs[j].pc = "closed"
    /\ jobs[j].timer = "fired"
    /\ jobs[j].responses = 1

\* C22: every connection that receives an event of a /api/review-image-v2
\* dispatch is the connection on file for the user who uploaded the image or
\* the connection on file for an admin identity; no other connection (another
\* user's, or an unauthenticated one) receives review data.
C22_ReviewDataReachesOnlyItsAudience ==
  (last.op = "review" /\ last.n > 0)
  => \A c \in Conns :
       Received(c) # {}
       => \/ Lookup(userSockets, last.userId) = c
          \/ \E k \in AdminKeys(userSockets) : userSockets[k] = c

AuthenticatedAs(c, i) == status[c] = "open" /\ sockUserId[c] = i

\* a connection of i, by its session identity or by the registry entry of i,
\* has received a copy of the last dispatch meant for that audience
ReachedAs(i, kind) ==
  \E c \in Conns :
    /\ AuthenticatedAs(c, i) \/ (status[c] = "open" /\ Lookup(userSockets, i) = c)
    /\ \E e \in Received(c) : e.n = last.n /\ e.userType = kind

C23_ConnectedIdentityIsReachable ==
  last.n > 0
  => /\ (~Falsy(last.userId) /\ \E c \in Conns : AuthenticatedAs(c, last.userId))
          => ReachedAs(last.userId, "user")
     /\ AdminDispatch(last)
          => \A c \in Conns :
               (status[c] = "open" /\ sockIsAdmin[c]) => ReachedAs(sockUserId[c], "admin")

\* C26: the login collection never holds two accounts with the same email
\* address, however signup, generate-otp, signup-with-otp and verify-otp
\* requests interleave at their awaits.
C26_OneAccountPerEmail ==
  \A i, k \in 1..Len(loginCollection) :
    loginCollection[i].email = loginCollection[k].email => i = k

\* C27: a stored OTP creates at most one account: no two accounts were created
\* through the same otpStore entry.
C27_OneAccountPerOtp ==
  \A i, k \in 1..Len(loginCollection) :
    (loginCollection[i].via > 0 /\ loginCollection[i].via = loginCollection[k].via)
      => i = k

\* the single-request rules of C27: a 201 of verify-otp leaves no entry for
\* the email; a verification without an entry is answered "No OTP found", one
\* after the expiry removes the entry, one with another code leaves the entry
\* as it is, and none of the three creates an account
VerifyOtpRules ==
  [][\A c \in Calls :
       (calls'[c] # calls[c] /\ calls'[c].route = "verify-otp" /\ calls'[c].pc = "done")
       => LET e == calls'[c].email IN
          /\ calls'[c].http = 201 => ~MapHas(otpStore', e)
          /\ (calls[c].pc \in {"idle", "done"} /\ e # "" /\ calls'[c].otp # "")
               => /\ loginCollection' = loginCollection
                  /\ ~MapHas(otpStore, e)
                       => calls'[c].error = "nootp" /\ otpStore' = otpStore
                  /\ (MapHas(otpStore, e) /\ now > otpStore[e].expires)
                       => calls'[c].error = "expired" /\ ~MapHas(otpStore', e)
                  /\ (MapHas(otpStore, e) /\ now <= otpStore[e].expires
                        /\ otpStore[e].otp # calls'[c].otp)
                       => calls'[c].error = "invalid" /\ otpStore' = otpStore]_vars

\* C28: the authenticate handler accepts every userId a 200 of /api/login
\* returned and classifies it as admin exactly when the response said
\* isAdmin; admin ids start with "admin_", the others are 24 hex characters.
C28_LoginIdIsAccepted ==
  [][(last'.op = "authenticate" /\ loginRes.http = 200
        /\ last'.userId = loginRes.userId)
       => /\ last'.delivery # "threw"
          /\ validateUserType(loginRes.userId).valid
          /\ sockUserId'[last'.conn] = loginRes.userId
          /\ sockIsAdmin'[last'.conn] = loginRes.isAdmin
          /\ sockUserType'[last'.conn] = loginRes.userType
          /\ \E e \in out' : e.event = "auth_success" /\ e.to = last'.conn
          /\ loginRes.isAdmin => StartsWith(loginRes.userId.chars, AdminPrefix)
          /\ ~loginRes.isAdmin => MatchHex24(loginRes.userId.chars)]_vars

\* a database admin has logged in and authenticated its socket as admin
C28_Witness ==
  /\ last.op = "authenticate"
  /\ loginReq.kind = "ok"
  /\ loginRes.isAdmin
  /\ last.userId = loginRes.userId
  /\ sockIsAdmin[last.conn]
  /\ MapHas(userSockets, loginRes.userId.chars)

\* C29: whatever severityLevel a /save-canvas request carries, the value
\* stored on the FinalImage and the value announced to admins are the same
\* member of the enum: "medium" becomes "moderate", an enum value is kept, and
\* anything else, an absent value included, becomes "unknown".
SeverityRule(sev) ==
  IF sev = "medium" THEN "moderate"
  ELSE IF sev \in {"low", "moderate", "high", "severe", "unknown"} THEN sev
  ELSE "unknown"

C29_SeverityIsNormalised ==
  [][\A req \in SaveCanvasReqs, sev \in SeverityPayloads :
       (SaveCanvas(req, sev) /\ last'.http = 200)
       => /\ Len(finalImages') = Len(finalImages) + 1
          /\ finalImages'[Len(finalImages')].severityLevel = SeverityRule(sev)
          /\ canvasSeverity' = SeverityRule(sev)
          /\ canvasSeverity' \in SeverityEnum]_vars

\* a request sent with "medium" has been stored as "moderate" and announced
\* to a registered admin
C29_Witness ==
  /\ last.op = "save-canvas"
  /\ last.http = 200
  /\ finalImages # <<>>
  /\ finalImages[Len(finalImages)].severityLevel = "moderate"
  /\ canvasSeverity = "moderate"
  /\ \E e \in out : e.event = "prediction-complete" /\ e.userType = "admin"

\* C30: in a 200 response of /api/report-stats pending + reviewed = total,
\* total is the number of entries found, and every entry falls under exactly
\* one of the two filters.
C30_PendingPlusReviewedIsTotal ==
  statsRes.http = 200
  => /\ statsRes.pending + statsRes.reviewed = statsRes.total
     /\ statsRes.total = Len(statsEntries)
     /\ statsRes.pending =
          Cardinality({i \in 1..Len(statsEntries) :
             statsEntries[i].reviewed # "true"
               \/ statsEntries[i].reviewStatus = "pending"})
     /\ \A i \in 1..Len(statsEntries) :
          IsPending(statsEntries[i]) # IsReviewed(statsEntries[i])

\* two entries, one unreviewed with a status other than pending and one
\* reviewed, have been counted
C30_Witness ==
  /\ statsRes.http = 200
  /\ statsRes.total = 2
  /\ statsRes.pending = 1
  /\ statsRes.reviewed = 1
  /\ \E i \in 1..Len(statsEntries) :
       statsEntries[i].reviewed = "false" /\ statsEntries[i].reviewStatus = "approved"

====
